---- MODULE Spec2Model ----
(***************************************************************************)
(* LRUTimeoutCache (src/lru_timeout_cache.py) and its one caller,          *)
(* OAuthIntegration.get_user_info (src/aaa_oauth.py), on a single-threaded *)
(* asyncio event loop.                                                     *)
(*                                                                         *)
(* Time is discrete.  A pending TimerHandle is the time still to pass      *)
(* before the loop may run its callback _delete_outdated(key); it is due   *)
(* at 0.  item["timer"] holds the handle itself, so the handle of an entry *)
(* lives in the entry; `leaked` counts the handles that are still          *)
(* scheduled on the loop and that no entry of the cache refers to.         *)
(* A cancelled or fired handle is nowhere.                                 *)
(***************************************************************************)
EXTENDS Integers, Sequences, FiniteSets, TLC

\* ---- bounds of the model ----
\* self.maxSize ranges over 1..MaxSize; self.timeout is MaxTimeout
MaxSize == 2
MaxTimeout == 2
\* handles scheduled on the loop at one time
MaxTimers == 3

Keys == {"A", "B", "C"}
\* Python's None, as a value returned by get_item / put_item and storable as data
None == "None"
\* Data passed to put_item by a direct caller
Values == {None, "a"}
\* Bodies the user-info endpoint may answer with (response.text() is a str)
FetchValues == {"", "a"}
Procs == {1, 2}
\* item["timer"] = None
NoTimer == -1

VARIABLES
    cache,      \* self.cache: the OrderedDict, first element = least recently used end
    leaked,     \* leaked[k][n]: scheduled handles for key k, n from due, held by no entry
    maxSize,    \* self.maxSize
    timeout,    \* self.timeout
    endpoint,   \* auth_settings.user_info_endpoint is non-empty
    pc,         \* per get_user_info coroutine: "idle" or "fetch" (suspended in await fetch_user_info)
    sub,        \* per get_user_info coroutine: token.sub of the call in progress
    call,       \* the operation that ran last
    ret,        \* its outcome: [kind |-> "return" | "raise" | "await", val]
    lastTouch,  \* observer: per key held, the operation that touched it last
    touched     \* observer: the keys held, ordered by last touch, oldest first

vars == <<cache, leaked, maxSize, timeout, endpoint, pc, sub, call, ret, lastTouch, touched>>

\* ---- outcomes of a call ----
Return(v) == [kind |-> "return", val |-> v]
Raise(e) == [kind |-> "raise", val |-> e]
Await == [kind |-> "await", val |-> "fetch_user_info"]

\* Python truthiness of the data values of the model: None and "" are falsy
Truthy(v) == v \notin {None, ""}

\* ---- OrderedDict ----
KeySeq(c) == [i \in DOMAIN c |-> c[i].key]
KeysOf(c) == {c[i].key : i \in DOMAIN c}
IndexOf(c, key) == CHOOSE i \in DOMAIN c : c[i].key = key
Entry(c, key) == c[IndexOf(c, key)]
\* del d[key]
delitem(c, key) == SelectSeq(c, LAMBDA e : e.key # key)
\* d.move_to_end(key)
move_to_end(c, key) == Append(delitem(c, key), Entry(c, key))
\* d[key] = e : an existing key keeps its position, a new key goes to the end
setitem(c, key, e) ==
    IF key \in KeysOf(c)
    THEN [c EXCEPT ![IndexOf(c, key)] = e]
    ELSE Append(c, e)

\* ---- event loop timers ----
\* loop.call_later(self.timeout, self._delete_outdated, key): the new handle
call_later == timeout
\* a handle that stays scheduled while its entry leaves the cache
Leak(lk, key, h) == [lk EXCEPT ![key][h] = @ + 1]
RECURSIVE SumUpTo(_, _)
SumUpTo(f, n) == IF n < 0 THEN 0 ELSE f[n] + SumUpTo(f, n - 1)
\* the handles scheduled for key that no entry refers to
LeakedFor(lk, key) == SumUpTo(lk[key], MaxTimeout)
RECURSIVE SumOver(_, _)
SumOver(lk, K) ==
    IF K = {} THEN 0
    ELSE LET k == CHOOSE x \in K : TRUE IN LeakedFor(lk, k) + SumOver(lk, K \ {k})
\* every handle scheduled on the loop
Scheduled(c, lk) == Len(c) + SumOver(lk, Keys)
\* the handles scheduled for key: pending, not cancelled, not fired
PendingFor(c, lk, key) == (IF key \in KeysOf(c) THEN 1 ELSE 0) + LeakedFor(lk, key)

\* ---- LRUTimeoutCache ----
\* timer.cancel() if there is one, then a new handle in item["timer"]
\* _update_timer as it would be if a timeout of 0 were taken for "no expiry"
_update_timer_NoZero(item, key) ==
    [item EXCEPT !.timer = IF timeout = 0 THEN NoTimer ELSE call_later]

_update_timer(item, key) == [item EXCEPT !.timer = call_later]

\* has_item as it would be if it tested the stored data as get_user_info does
has_item_Truthy(c, key) == key \in KeysOf(c) /\ Truthy(Entry(c, key).data)

has_item(c, key) == key \in KeysOf(c)

\* get_item as it would be without self.cache.move_to_end(key)
get_item_NoMove(c, lk, key) ==
    IF key \notin KeysOf(c)
    THEN [cache |-> c, leaked |-> lk, ret |-> Return(None)]
    ELSE LET item == _update_timer(Entry(c, key), key)
         IN  [cache |-> setitem(c, key, item), leaked |-> lk, ret |-> Return(item.data)]

get_item(c, lk, key) ==
    IF key \notin KeysOf(c)
    THEN [cache |-> c, leaked |-> lk, ret |-> Return(None)]
    ELSE LET c1 == move_to_end(c, key)
             item == _update_timer(Entry(c1, key), key)
         IN  [cache |-> setitem(c1, key, item), leaked |-> lk, ret |-> Return(item.data)]

\* put_item as it would be with the capacity test off by one
put_item_OffByOne(c, lk, key, item) ==
    LET cache_item == _update_timer([key |-> key, data |-> item, timer |-> NoTimer], key)
        c1 == move_to_end(setitem(c, key, cache_item), key)
    IN  IF Len(c1) > maxSize + 1
        THEN [cache |-> Tail(c1), leaked |-> Leak(lk, Head(c1).key, Head(c1).timer),
              ret |-> Raise("TypeError")]
        ELSE [cache |-> c1, leaked |-> lk, ret |-> Return(None)]

\* put_item as it would be with the capacity tested before the insertion,
\* len(self.cache) >= self.maxSize, whether or not key is already held
put_item_CountFirst(c, lk, key, item) ==
    LET cache_item == _update_timer([key |-> key, data |-> item, timer |-> NoTimer], key)
        c1 == move_to_end(setitem(c, key, cache_item), key)
    IN  IF Len(c) >= maxSize
        THEN [cache |-> Tail(c1), leaked |-> Leak(lk, Head(c1).key, Head(c1).timer),
              ret |-> Raise("TypeError")]
        ELSE [cache |-> c1, leaked |-> lk, ret |-> Return(None)]

\* put_item as it would be with popitem() left at its default, last=True
put_item_PopLast(c, lk, key, item) ==
    LET cache_item == _update_timer([key |-> key, data |-> item, timer |-> NoTimer], key)
        c1 == move_to_end(setitem(c, key, cache_item), key)
    IN  IF Len(c1) > maxSize
        THEN [cache |-> SubSeq(c1, 1, Len(c1) - 1),
              leaked |-> Leak(lk, c1[Len(c1)].key, c1[Len(c1)].timer),
              ret |-> Raise("TypeError")]
        ELSE [cache |-> c1, leaked |-> lk, ret |-> Return(None)]

put_item(c, lk, key, item) ==
    LET \* an existing item's handle is cancelled; the item is replaced below
        cache_item == _update_timer([key |-> key, data |-> item, timer |-> NoTimer], key)
        c1 == move_to_end(setitem(c, key, cache_item), key)
    IN  IF Len(c1) > maxSize
        THEN \* popitem(last=False) removes the first pair and returns the tuple
             \* (key, value); removed_item["timer"] on a tuple raises TypeError,
             \* so neither cancel() nor the return statement is reached
             [cache |-> Tail(c1), leaked |-> Leak(lk, Head(c1).key, Head(c1).timer),
              ret |-> Raise("TypeError")]
        ELSE [cache |-> c1, leaked |-> lk, ret |-> Return(None)]

_delete_outdated(c, key) ==
    IF key \in KeysOf(c)
    THEN [cache |-> delitem(c, key), ret |-> Return(None)]
    ELSE [cache |-> c, ret |-> Raise("KeyError")]

\* pop_item as it would be if an empty cache were answered with None
pop_item_Silent(c, lk) ==
    IF c = << >>
    THEN [cache |-> c, leaked |-> lk, ret |-> Return(None)]
    ELSE [cache |-> SubSeq(c, 1, Len(c) - 1),
          leaked |-> Leak(lk, c[Len(c)].key, c[Len(c)].timer),
          ret |-> Raise("TypeError")]

pop_item(c, lk) ==
    IF c = << >>
    THEN \* popitem() on an empty OrderedDict
         [cache |-> c, leaked |-> lk, ret |-> Raise("KeyError")]
    ELSE \* popitem(last=True) returns a tuple, as in put_item
         [cache |-> SubSeq(c, 1, Len(c) - 1),
          leaked |-> Leak(lk, c[Len(c)].key, c[Len(c)].timer),
          ret |-> Raise("TypeError")]

\* ---- observers (no effect on the program's state) ----
Without(s, K) == SelectSeq(s, LAMBDA k : k \notin K)
\* a touch of key puts it last; beyond capacity the oldest-touched key goes
TouchOrder(key) ==
    LET t1 == Append(Without(touched, {key}), key)
    IN  IF Len(t1) > maxSize THEN Tail(t1) ELSE t1
\* the keys of hit were touched by op and c is the cache after the call
Observe(op, hit, c) ==
    lastTouch' = [k \in Keys |-> IF k \notin KeysOf(c) THEN "none"
                                 ELSE IF k \in hit THEN op ELSE lastTouch[k]]

Max(a, b) == IF a > b THEN a ELSE b

\* ---- the cache's operations, called directly ----
HasItem(key) ==
    /\ call' = "has_item"
    /\ ret' = Return(IF has_item(cache, key) THEN "True" ELSE "False")
    /\ UNCHANGED <<cache, leaked, maxSize, timeout, endpoint, pc, sub, lastTouch, touched>>

GetItem(key) ==
    LET r == get_item(cache, leaked, key)
        hit == IF key \in KeysOf(cache) THEN {key} ELSE {}
    IN  /\ cache' = r.cache
        /\ leaked' = r.leaked
        /\ call' = "get_item"
        /\ ret' = r.ret
        /\ Observe("get_item", hit, r.cache)
        /\ touched' = IF hit = {} THEN touched ELSE TouchOrder(key)
        /\ UNCHANGED <<maxSize, timeout, endpoint, pc, sub>>

PutItem(key, item) ==
    \* bound of the model: a new key needs room for one more scheduled handle
    /\ key \in KeysOf(cache) \/ Scheduled(cache, leaked) < MaxTimers
    /\ LET r == put_item(cache, leaked, key, item)
       IN  /\ cache' = r.cache
           /\ leaked' = r.leaked
           /\ call' = "put_item"
           /\ ret' = r.ret
           /\ Observe("put_item", {key}, r.cache)
           /\ touched' = TouchOrder(key)
    /\ UNCHANGED <<maxSize, timeout, endpoint, pc, sub>>

PopItem ==
    LET r == pop_item(cache, leaked)
    IN  /\ cache' = r.cache
        /\ leaked' = r.leaked
        /\ call' = "pop_item"
        /\ ret' = r.ret
        /\ Observe("pop_item", {}, r.cache)
        /\ touched' = Without(touched, KeysOf(cache) \ KeysOf(r.cache))
        /\ UNCHANGED <<maxSize, timeout, endpoint, pc, sub>>

\* ---- the event loop ----
\* one unit of time passes
Tick ==
    /\ cache' = [i \in DOMAIN cache |-> [cache[i] EXCEPT !.timer = Max(@ - 1, 0)]]
    /\ leaked' = [k \in Keys |-> [n \in 0..MaxTimeout |->
                     IF n = 0 THEN leaked[k][0] + leaked[k][1]
                     ELSE IF n < MaxTimeout THEN leaked[k][n + 1] ELSE 0]]
    /\ call' = "tick"
    /\ ret' = Return(None)
    /\ UNCHANGED <<maxSize, timeout, endpoint, pc, sub, lastTouch, touched>>

\* the loop runs the due handle of an entry of the cache: _delete_outdated(key)
FireOwn ==
    \E i \in DOMAIN cache :
        /\ cache[i].timer = 0
        /\ LET r == _delete_outdated(cache, cache[i].key)
           IN  /\ cache' = r.cache
               /\ ret' = r.ret
               /\ Observe("_delete_outdated", {}, r.cache)
               /\ touched' = Without(touched, KeysOf(cache) \ KeysOf(r.cache))
        /\ call' = "_delete_outdated"
        /\ UNCHANGED <<leaked, maxSize, timeout, endpoint, pc, sub>>

\* the loop runs a due handle that no entry refers to: _delete_outdated(key)
\* deletes the entry now stored under key, whose own handle stays scheduled;
\* without such an entry del raises KeyError, which goes to the loop's
\* exception handler
FireLeaked ==
    \E k \in Keys :
        /\ leaked[k][0] > 0
        /\ LET r == _delete_outdated(cache, k)
               lk == [leaked EXCEPT ![k][0] = @ - 1]
           IN  /\ cache' = r.cache
               /\ ret' = r.ret
               /\ leaked' = IF k \in KeysOf(cache)
                            THEN Leak(lk, k, Entry(cache, k).timer) ELSE lk
               /\ Observe("_delete_outdated", {}, r.cache)
               /\ touched' = Without(touched, KeysOf(cache) \ KeysOf(r.cache))
        /\ call' = "_delete_outdated"
        /\ UNCHANGED <<maxSize, timeout, endpoint, pc, sub>>

\* ---- OAuthIntegration.get_user_info ----
\* from the call to its return, or to its suspension in await fetch_user_info
GetUserInfoCall(p, s) ==
    /\ pc[p] = "idle"
    /\ call' = "get_user_info"
    /\ UNCHANGED <<maxSize, timeout, endpoint>>
    /\ IF s = ""
       THEN /\ ret' = Raise("HTTPException401")
            /\ UNCHANGED <<cache, leaked, pc, sub, lastTouch, touched>>
       ELSE IF ~endpoint
       THEN /\ ret' = Return("auth_payload")
            /\ UNCHANGED <<cache, leaked, pc, sub, lastTouch, touched>>
       ELSE IF maxSize = 0
       THEN \* __init__ builds self.user_cache only for a truthy user_cache_size
            /\ ret' = Raise("AttributeError")
            /\ UNCHANGED <<cache, leaked, pc, sub, lastTouch, touched>>
       ELSE LET r == get_item(cache, leaked, s)
                hit == IF s \in KeysOf(cache) THEN {s} ELSE {}
            IN  /\ cache' = r.cache
                /\ leaked' = r.leaked
                /\ Observe("get_item", hit, r.cache)
                /\ touched' = IF hit = {} THEN touched ELSE TouchOrder(s)
                /\ IF Truthy(r.ret.val)
                   THEN /\ ret' = r.ret
                        /\ UNCHANGED <<pc, sub>>
                   ELSE /\ ret' = Await
                        /\ pc' = [pc EXCEPT ![p] = "fetch"]
                        /\ sub' = [sub EXCEPT ![p] = s]

\* fetch_user_info answers with body v; parse_user_info is the identity
GetUserInfoResume(p, v) ==
    /\ pc[p] = "fetch"
    \* bound of the model, as in PutItem
    /\ sub[p] \in KeysOf(cache) \/ Scheduled(cache, leaked) < MaxTimers
    /\ LET r == put_item(cache, leaked, sub[p], v)
       IN  /\ cache' = r.cache
           /\ leaked' = r.leaked
           /\ call' = "get_user_info"
           /\ ret' = IF r.ret.kind = "raise" THEN r.ret ELSE Return(v)
           /\ Observe("put_item", {sub[p]}, r.cache)
           /\ touched' = TouchOrder(sub[p])
    /\ pc' = [pc EXCEPT ![p] = "idle"]
    /\ sub' = [sub EXCEPT ![p] = ""]
    /\ UNCHANGED <<maxSize, timeout, endpoint>>

\* the HTTP request of fetch_user_info fails; the exception leaves get_user_info
FetchFails(p) ==
    /\ pc[p] = "fetch"
    /\ call' = "get_user_info"
    /\ ret' = Raise("ClientError")
    /\ pc' = [pc EXCEPT ![p] = "idle"]
    /\ sub' = [sub EXCEPT ![p] = ""]
    /\ UNCHANGED <<cache, leaked, maxSize, timeout, endpoint, lastTouch, touched>>

\* ---- specifications ----
InitWith(sizes, timeouts, endpoints) ==
    /\ cache = << >>
    /\ leaked = [k \in Keys |-> [n \in 0..MaxTimeout |-> 0]]
    /\ maxSize \in sizes
    /\ timeout \in timeouts
    /\ endpoint \in endpoints
    /\ pc = [p \in Procs |-> "idle"]
    /\ sub = [p \in Procs |-> ""]
    /\ call = "__init__"
    /\ ret = Return(None)
    /\ lastTouch = [k \in Keys |-> "none"]
    /\ touched = << >>

\* a cache of size >= 1 with a timeout >= 1, used through its own methods
Init == InitWith(1..MaxSize, {MaxTimeout}, {TRUE})

Next ==
    \/ \E k \in Keys : HasItem(k)
    \/ \E k \in Keys : GetItem(k)
    \/ \E k \in Keys, v \in Values : PutItem(k, v)
    \/ PopItem
    \/ Tick
    \/ FireOwn
    \/ FireLeaked

Spec == Init /\ [][Next]_vars

\* the cache of an OAuthIntegration, used through get_user_info only
InitUser == InitWith(1..MaxSize, {MaxTimeout}, BOOLEAN)

NextUser ==
    \/ \E p \in Procs, s \in Keys \cup {""} : GetUserInfoCall(p, s)
    \/ \E p \in Procs, v \in FetchValues : GetUserInfoResume(p, v)
    \/ \E p \in Procs : FetchFails(p)
    \/ Tick
    \/ FireOwn
    \/ FireLeaked

SpecUser == InitUser /\ [][NextUser]_vars

\* a cache built with size 0; its OrderedDict stays empty, so no entry's own
\* handle ever runs
Init0 == InitWith({0}, {MaxTimeout}, {TRUE})

Next0 ==
    \/ \E p \in Procs, s \in Keys \cup {""} : GetUserInfoCall(p, s)
    \/ \E k \in Keys : HasItem(k)
    \/ \E k \in Keys : GetItem(k)
    \/ \E k \in Keys, v \in Values : PutItem(k, v)
    \/ PopItem
    \/ Tick
    \/ FireLeaked

Spec0 == Init0 /\ [][Next0]_vars

\* a cache built with timeout 0; the loop runs every due handle of an entry
\* in its next iteration
InitT0 == InitWith(1..MaxSize, {0}, {TRUE})

SpecT0 == InitT0 /\ [][Next]_vars /\ WF_vars(FireOwn)

\* ---- properties ----

\* C1: after any sequence of put_item, get_item, pop_item calls and timer
\* firings on a cache built with maxSize >= 1, the cache never holds more than
\* maxSize distinct keys once an operation has finished.
C1_Capacity ==
    /\ Len(cache) <= maxSize
    /\ Cardinality(KeysOf(cache)) = Len(cache)

\* a put_item beyond capacity has just run and the cache is full
C1_Witness ==
    /\ call = "put_item"
    /\ ret.kind = "raise"
    /\ Len(cache) = maxSize

\* C2: a put_item of a new key that makes the entry count exceed maxSize evicts
\* exactly the least recently used entry, cancels its pending timer and returns
\* its value; any other put_item returns nothing and evicts nothing.
C2_EvictionContract ==
    [][call' = "put_item" =>
        LET key == cache'[Len(cache')].key
        IN  IF key \notin KeysOf(cache) /\ Len(cache) = maxSize
            THEN /\ KeySeq(cache') = Append(Tail(KeySeq(cache)), key)
                 /\ leaked' = leaked
                 /\ ret' = Return(Head(cache).data)
            ELSE /\ KeysOf(cache') = KeysOf(cache) \cup {key}
                 /\ ret' = Return(None)]_vars

\* C3: between operations every entry of the cache has exactly one pending
\* expiry timer, and no key has more than one pending timer.
C3_OneTimer ==
    \A k \in Keys :
        /\ PendingFor(cache, leaked, k) <= 1
        /\ k \in KeysOf(cache) =>
               /\ Entry(cache, k).timer # NoTimer
               /\ PendingFor(cache, leaked, k) = 1

\* C4: a key touched (get_item hit or put_item) at time t stays retrievable at
\* every time strictly before t + timeout unless capacity eviction or pop_item
\* removes it: an entry whose handle, armed at the touch, is not yet due leaves
\* the cache only in a put_item or pop_item step.
C4_IdleReset ==
    [][\A k \in KeysOf(cache) :
           (Entry(cache, k).timer > 0 /\ k \notin KeysOf(cache'))
               => call' \in {"put_item", "pop_item"}]_vars

\* C5: after put_item(K, v) and no further touch of K, K is present at every
\* instant strictly before timeout has elapsed (unless evicted or popped), and
\* is absent once timeout has elapsed and the due callback has run.
C5_EvictionOnTimeout ==
    [][\A k \in KeysOf(cache) :
           lastTouch[k] = "put_item" =>
               /\ (Entry(cache, k).timer > 0 /\ k \notin KeysOf(cache'))
                      => call' \in {"put_item", "pop_item"}
               /\ Entry(cache, k).timer = 0
                      => k \notin KeysOf(_delete_outdated(cache, k).cache)]_vars

\* C6: once get_user_info has stored user info for subject S, a later
\* get_user_info for S made while S's entry is in the cache returns the stored
\* value and does not call fetch_user_info, whatever the stored value is.
C6_NoRefetch ==
    [][/\ \A p \in Procs :
              (pc[p] = "idle" /\ pc'[p] = "fetch") => sub'[p] \notin KeysOf(cache)
       /\ (call' = "get_user_info" /\ pc' = pc /\ endpoint /\ ret'.kind = "return")
              => LET key == cache'[Len(cache')].key
                 IN  key \in KeysOf(cache) /\ ret'.val = Entry(cache, key).data]_vars

\* C7: get_item answers the same absent signal (None) for every key that is not
\* in the cache, and never answers it for a key that is in the cache, whatever
\* value was stored with put_item.
C7_AbsentDistinct ==
    \A k \in Keys :
        (get_item(cache, leaked, k).ret = Return(None)) <=> (k \notin KeysOf(cache))

\* C8: get_item, has_item and put_item complete with a normal result in every
\* reachable state and for every key and value; none of them raises.
C8_Total ==
    call \in {"get_item", "has_item", "put_item"} => ret.kind = "return"

\* C9: a get_item hit and a put_item each move their key to the most recently
\* used position, so the order of the OrderedDict is the order of last touch
\* and capacity eviction takes the entry whose last touch is oldest.
C9_RecencyOrder ==
    KeySeq(cache) = touched

\* maxSize = 2: C has just been put into a full cache and A, which a get_item
\* hit had touched last, is the entry that stayed
C9_Witness ==
    /\ maxSize = 2
    /\ call = "put_item"
    /\ ret.kind = "raise"
    /\ KeySeq(cache) = <<"A", "C">>
    /\ lastTouch["A"] = "get_item"

\* C10: pop_item on a non-empty cache removes the most recently used entry,
\* cancels its pending timer, returns its value and leaves every other entry
\* and timer unchanged.
C10_Pop ==
    [][(call' = "pop_item" /\ cache # << >>) =>
           /\ cache' = SubSeq(cache, 1, Len(cache) - 1)
           /\ leaked' = leaked
           /\ ret' = Return(cache[Len(cache)].data)]_vars

\* C11: pop_item on an empty cache fails with the empty-cache error (the
\* KeyError of OrderedDict.popitem) and leaves the cache and the pending
\* timers unchanged.
C11_PopEmpty ==
    cache = << >> =>
        pop_item(cache, leaked) = [cache |-> << >>, leaked |-> leaked, ret |-> Raise("KeyError")]

\* pop_item has just failed on an empty cache while a timer was pending
C11_Witness ==
    /\ call = "pop_item"
    /\ ret = Raise("KeyError")
    /\ cache = << >>
    /\ SumOver(leaked, Keys) > 0

SeqRange(q) == {q[i] : i \in DOMAIN q}

\* C12: has_item(K) is true iff an entry for K is in the cache (put and not
\* removed since), and a has_item call leaves the entries, their values, the
\* recency order and every pending timer unchanged.
C12_HasItem ==
    [][/\ \A k \in Keys : has_item(cache, k) <=> k \in SeqRange(touched)
       /\ call' = "has_item" =>
              /\ cache' = cache
              /\ leaked' = leaked
              /\ ret'.kind = "return"]_vars

\* has_item has just answered True for an entry whose handle is already due
C12_Witness ==
    /\ call = "has_item"
    /\ ret = Return("True")
    /\ \E i \in DOMAIN cache : cache[i].timer = 0

\* C13: put_item on a key that is already present replaces its value, keeps
\* the entry count and evicts nothing, whatever the fill level.
C13_Replace ==
    \A k \in KeysOf(cache), v \in Values :
        LET r == put_item(cache, leaked, k, v)
        IN  /\ KeysOf(r.cache) = KeysOf(cache)
            /\ Len(r.cache) = Len(cache)
            /\ Entry(r.cache, k).data = v
            /\ r.leaked = leaked
            /\ r.ret = Return(None)

\* a put_item has just returned normally on a cache of size 2 that is full
C13_Witness ==
    /\ maxSize = 2
    /\ Len(cache) = maxSize
    /\ call = "put_item"
    /\ ret = Return(None)

\* C14: every removal of an entry leaves no pending timer for it, so every
\* pending timer belongs to an entry that is in the cache.
C14_NoLeakedTimers ==
    \A k \in Keys : \A n \in 0..MaxTimeout : leaked[k][n] = 0

\* C15: a timer callback removes an entry only if that timer was armed by the
\* most recent touch of the entry now stored under the key: a removal by
\* _delete_outdated is the work of the entry's own handle, which was due.
C15_NoStaleRemoval ==
    [][(call' = "_delete_outdated" /\ cache' # cache) =>
           /\ leaked' = leaked
           /\ \A i \in DOMAIN cache :
                  cache[i].key \notin KeysOf(cache') => cache[i].timer = 0]_vars

\* C16: an expiry callback that fires for a key that is no longer in the cache
\* raises no error and changes nothing.
C16_AbsentKeyNoOp ==
    call = "_delete_outdated" => ret.kind = "return"

\* C17: for maxSize >= 1 the entry a put_item(K, v) evicts is never K's: after
\* the call K is in the cache with value v and get_item(K) returns v.
C17_PutVisible ==
    \A k \in Keys, v \in Values :
        LET r == put_item(cache, leaked, k, v)
        IN  /\ k \in KeysOf(r.cache)
            /\ Entry(r.cache, k).data = v
            /\ get_item(r.cache, r.leaked, k).ret = Return(v)

\* a put_item into a full cache of size 1 has just evicted the other entry
C17_Witness ==
    /\ maxSize = 1
    /\ call = "put_item"
    /\ ret.kind = "raise"
    /\ Len(cache) = 1
    /\ lastTouch[cache[1].key] = "put_item"

\* C18: with maxSize = 0 every put_item returns normally and leaves the cache
\* empty with no pending timer, every get_item returns absent, and
\* get_user_info for a token with a subject raises no error.
C18_SizeZero ==
    /\ cache = << >>
    /\ call = "put_item" => ret.kind = "return" /\ SumOver(leaked, Keys) = 0
    /\ call = "get_item" => ret = Return(None)
    /\ call = "get_user_info" => ret.kind # "raise" \/ ret = Raise("HTTPException401")

C20_InterleavedMisses ==
    [][\A p \in Procs, q \in Procs :
           (/\ p # q
            /\ pc[p] = "fetch" /\ pc[q] = "fetch" /\ sub[p] = sub[q]
            /\ sub[p] \notin KeysOf(cache)
            /\ pc'[p] = "idle" /\ ret' # Raise("ClientError"))
           => /\ ret'.kind = "return"
              /\ ret'.val = Entry(cache', sub[p]).data
              /\ PendingFor(cache', leaked', sub[p]) = 1]_vars

====
